---- MODULE Spec2Model ----
(***************************************************************************)
(* A model of the OPC UA -> Azure IoT agent (src/src/index.js and the      *)
(* changes_only operator of src/unnamed/part_001).                          *)
(*                                                                         *)
(* Node runs the program on one cooperative scheduler: every action below  *)
(* is one scheduling turn, i.e. a handler or the continuation of an await  *)
(* running up to its next suspension point.                                *)
(***************************************************************************)
EXTENDS Integers, Sequences, FiniteSets, TLC

\* ------------------------------------------------------------------ bounds
\* How many shutdown triggers (SIGINT deliveries, stream terminations) are explored.
MaxTriggers == 2
\* How many values the upstream of the stand-alone change filter delivers.
MaxUpstream == 3
\* How many change notifications the device delivers.
MaxNotify == 3
\* How many times the send timer fires.
MaxTicks == 2
\* How many direct-method invocations the hub delivers.
MaxInvocations == 2
\* How far the clock advances.
MaxClock == 2
\* How many changes of the desired ProductionRate the hub delivers.
MaxDesired == 2

\* ------------------------------------------------------------- small helpers
Reverse(s) == [i \in 1..Len(s) |-> s[Len(s) + 1 - i]]

Last(s) == s[Len(s)]

\* The indices of s at which the element x occurs.
Positions(s, x) == {i \in 1..Len(s) : s[i] = x}

\* ----------------------------------------------------------------- state
VARIABLES
    mainpc,         \* the await Main (and the functions it calls) is suspended at
    mainError,      \* the field names listed by the error CreateInterfaces threw
    prodpc,         \* the await the telemetry producer's start() is suspended at
    varbox,         \* which members of varbox are defined
    listeners,      \* how many listeners the live telemetry stream has
    producerCalls,  \* history: how often the producer issued each of its requests
    cleanup_stack,  \* the array cleanup_stack, as it is laid out now
    registered,     \* history: the cleanup actions in the order they were pushed
    runs,           \* the do_emergency activations, one per shutdown trigger
    startLog,       \* history: the cleanup actions in the order they were started
    settled,        \* history: how many times each cleanup action has fulfilled
    rejections,     \* promise rejections nothing handles
    streamEnd,      \* how the live telemetry stream terminated, "none" while it has not
    exitVia,        \* what ended the process: "none", "process.exit" or "unhandledRejection"
    exitCode,       \* process.exitCode
    last_val,       \* changes_only: the closure variable last_val
    fin,            \* history: the values the filter's upstream delivered
    fout,           \* history: the values the filter passed to its listener
    fpc,            \* changes_only: where the filter's producer is in its life
    sub,            \* changes_only: the closure variable sub
    subscribes,     \* history: how many times stream.subscribe was called
    unsubscribes,   \* history: how many times sub.unsubscribe() was carried out
    upEnd,          \* how the filter's upstream ended, NoEnd while it has not
    fend,           \* history: the end events the filter passed to its listener
    filterError,    \* the exception that escaped the filter's code, "none" if none did
    state,          \* CreateInterfaces: the array of [field, value] pairs
    emitted,        \* history: the snapshots the live stream emitted; the last one is
                    \* the value the memory stream replays to a new listener
    televalue,      \* CreateAzureInterfaces: the forwarder's slot
    errLast,        \* last_val of the DeviceError filter
    rateLast,       \* last_val of the ProductionRate filter
    sent,           \* history: the messages handed to client.sendEvent
    reported,       \* history: the patches handed to twin.properties.reported.update
    ticks,          \* history: how many times SendTelemetry has run
    timers,         \* the pending SendTelemetry timeouts
    invocations,    \* the direct-method invocations received
    deviceCalls,    \* history: the session.call requests issued
    twinEvents,     \* the 'properties.desired.ProductionRate' events received
    deviceWrites,   \* history: the session.write requests issued
    now             \* Date.now()

lifeVars == <<mainpc, mainError, prodpc, varbox, listeners, producerCalls, cleanup_stack,
              registered, runs, startLog, settled, rejections, streamEnd, exitVia,
              exitCode>>

filterVars == <<last_val, fin, fout, fpc, sub, subscribes, unsubscribes, upEnd, fend,
                filterError>>

relayVars == <<state, emitted, televalue, errLast, rateLast, sent, reported, ticks, timers>>

methodVars == <<invocations, deviceCalls, twinEvents, deviceWrites, now>>

\* What the shutdown steps and most start-up steps leave alone.
otherVars == <<filterVars, relayVars, methodVars>>

vars == <<lifeVars, filterVars, relayVars, methodVars>>

\* ------------------------------------------------------------- changes_only
\* JavaScript values: `ref` is the identity of an object (0 for a primitive), `kind`
\* and `v` are what a structural comparison looks at.
UNDEFINED == [kind |-> "undefined", ref |-> 0, v |-> <<>>]
NULL == [kind |-> "null", ref |-> 0, v |-> <<>>]
Num(n) == [kind |-> "number", ref |-> 0, v |-> <<n>>]
Arr(ref, elems) == [kind |-> "array", ref |-> ref, v |-> elems]

\* The upstream values explored: undefined, null, two numbers, two distinct arrays
\* with equal contents and a third array with other contents.
Values == {UNDEFINED, NULL, Num(0), Num(1), Arr(1, <<0, 7>>), Arr(2, <<0, 7>>),
           Arr(3, <<0, 8>>)}

\* A comparison by identity (===) in place of the structural one.
isEqual_identity(a, b) == a = b

\* _.isEqual(a, b)
isEqual(a, b) == a.kind = b.kind /\ a.v = b.v

\* A filter that passes a changed value on without remembering it.
changes_only_next_forget(value, last) ==
    IF isEqual(value, last)
    THEN [last_val |-> last, emit |-> <<>>]
    ELSE [last_val |-> last, emit |-> <<value>>]

\* The upstream listener's next(value) of changes_only, on a filter whose last_val is
\* `last`: the new last_val and what is passed downstream.
changes_only_next(value, last) ==
    IF isEqual(value, last)
    THEN [last_val |-> last, emit |-> <<>>]
    ELSE [last_val |-> value, emit |-> <<value>>]

\* The process has ended.
exited == exitVia # "none"

\* ------------------------------------------------------- the cleanup actions
\* The four closures pushed on cleanup_stack, in the order Main pushes them.
DISCONNECT == "opcclient.disconnect"
SESSION_CLOSE == "session.close"
SUB_TERMINATE == "subscription.terminate"
CLIENT_CLOSE == "client.close"

CleanupActions == {DISCONNECT, SESSION_CLOSE, SUB_TERMINATE, CLIENT_CLOSE}

\* ------------------------------------------------------ the device identifier
\* The --device argument examined, as its sequence of characters: 'ns=2;s=Device1/'.
args_device == <<"n", "s", "=", "2", ";", "s", "=", "D", "e", "v", "i", "c", "e", "1", "/">>

\* CreateInterfaces: if (device_id.endsWith("/")) device_id = device_id.substring(0,
\* device_id.length - 1). Nothing else is derived from the identifier.
normalize(id) == IF id # <<>> /\ Last(id) = "/" THEN SubSeq(id, 1, Len(id) - 1) ELSE id

device_id == normalize(args_device)

\* ------------------------------------------------------------- the 9 fields
fields == <<"ProductionStatus", "WorkorderId", "ProductionRate", "GoodCount",
            "BadCount", "Temperature", "DeviceError", "EmergencyStop",
            "ResetErrorStatus">>

\* The probe results explored: the fields whose DisplayName read has a nonzero status.
ProbeFailures == {{}, {"WorkorderId"}, {"GoodCount", "EmergencyStop"}}

\* fields.filter(status !== 0), in the original field order.
RECURSIVE FilterSeq(_, _)
FilterSeq(s, keep) ==
    IF s = <<>> THEN <<>>
    ELSE (IF Head(s) \in keep THEN <<Head(s)>> ELSE <<>>) \o FilterSeq(Tail(s), keep)

\* A listing that indexes `fields` by the position in the filtered list.
MissingFields_positional(failing) == SubSeq(fields, 1, Cardinality(failing))

MissingFields(failing) == FilterSeq(fields, failing)

\* The 7 telemetry fields: _(fields).dropRight(2).
TelemetryFields == SubSeq(fields, 1, Len(fields) - 2)

\* The values change notifications carry that are explored, per telemetry field.
\* GoodCount and BadCount are 64-bit counters, which the OPC UA library delivers as
\* [high, low] pairs.
FieldValues(f) ==
    CASE f = "ProductionStatus" -> {1}
      [] f = "WorkorderId" -> {"wo-2"}
      [] f = "ProductionRate" -> {50, 60}
      [] f = "GoodCount" -> {<<0, 11>>}
      [] f = "BadCount" -> {<<0, 3>>}
      [] f = "Temperature" -> {71}
      [] f = "DeviceError" -> {0, 1, 4}

\* The results of the initial Value read that are explored, in field order.
InitialReads == {<<0, "wo-1", 50, <<0, 10>>, <<0, 2>>, 70, 0>>,
                 <<1, "wo-2", 60, <<0, 11>>, <<0, 3>>, 71, 4>>}

\* A state seeded with all 9 zipped pairs, the last 2 without a value.
InitialState_noDrop(reads) ==
    [i \in 1..Len(fields) |->
        <<fields[i], IF i <= Len(reads) THEN reads[i] ELSE "undefined">>]

\* _(fields).zip(current_values).dropRight(2).map(([field, read]) => [field, value])
InitialState(reads) == [i \in 1..Len(TelemetryFields) |-> <<TelemetryFields[i], reads[i]>>]

\* Object.fromEntries(state)
fromEntries(st) ==
    [f \in {st[i][1] : i \in 1..Len(st)} |->
        st[CHOOSE i \in 1..Len(st) : st[i][1] = f /\ \A j \in (i + 1)..Len(st) : st[j][1] # f][2]]

\* A data object that leaves out DeviceError only.
TelemetryData_keepRate(tv) ==
    [k \in ((DOMAIN tv) \ {"DeviceError"}) \cup {"GoodCount", "BadCount", "type"} |->
        CASE k = "GoodCount" -> tv.GoodCount[2]
          [] k = "BadCount" -> tv.BadCount[2]
          [] k = "type" -> "telemetry"
          [] OTHER -> tv[k]]

\* The data object SendTelemetry builds from the slot (arrays are 0-based in the
\* program: GoodCount[1] is the second element), which client.sendEvent carries as JSON.
TelemetryData(tv) ==
    [k \in ((DOMAIN tv) \ {"DeviceError", "ProductionRate"}) \cup {"GoodCount", "BadCount", "type"} |->
        CASE k = "GoodCount" -> tv.GoodCount[2]
          [] k = "BadCount" -> tv.BadCount[2]
          [] k = "type" -> "telemetry"
          [] OTHER -> tv[k]]

\* The data object of the discrete error message.
ErrorData(error) == [type |-> "error", DeviceError |-> error]

\* A slot that keeps the first snapshot it was given.
televalue_next_keepFirst(reads, slot) == IF slot = UNDEFINED THEN reads ELSE slot

\* The forwarder's listener, next(reads): the slot after it.
televalue_next(reads, slot) == reads

\* A listener on telemetryStream.map(read => read.DeviceError).compose(changes_only)
\* is given the snapshot `reads`: the filter's new last_val, the messages sent and
\* the twin patches issued.
ErrorRelay(reads, last, time) ==
    LET r == changes_only_next(Num(reads.DeviceError), last) IN
    [last_val |-> r.last_val,
     sent |-> [i \in 1..Len(r.emit) |-> ErrorData(r.emit[i].v[1])],
     reported |-> [i \in 1..Len(r.emit) |->
                      [Error |-> r.emit[i].v[1], LastErrorDate |-> time]]]

\* A relay that patches the twin for every snapshot it is given.
RateRelay_unfiltered(reads, last) ==
    [last_val |-> Num(reads.ProductionRate),
     reported |-> <<[ProductionRate |-> reads.ProductionRate]>>]

\* The same for telemetryStream.map(read => read.ProductionRate).compose(changes_only).
RateRelay(reads, last) ==
    LET r == changes_only_next(Num(reads.ProductionRate), last) IN
    [last_val |-> r.last_val,
     reported |-> [i \in 1..Len(r.emit) |-> [ProductionRate |-> r.emit[i].v[1]]]]

\* --------------------------------------------------------------- do_cleanup
\* do_cleanup is also the 'beforeExit' listener; that event needs an empty event
\* loop, which the open connections and the pending awaits rule out before the
\* process ends, and process.exit() does not raise it: every activation modelled
\* here is do_emergency's.
\*
\* One step of `for (const fn of cleanup_stack.reverse()) await fn()` for an
\* activation that has consumed `idx` elements: the array iterator reads the
\* array as it is NOW (length and contents), calls the element and suspends on
\* its promise. The subscription closure (an async function) dereferences
\* varbox.monitored at once: while that is undefined the promise it returns is
\* rejected with a TypeError, `await fn()` throws and the activation is aborted.
\*
\* An iteration that goes on as if the rejected call were still pending.
do_cleanup_step_ignoreFailure(stack, idx, vb) ==
    IF idx < Len(stack)
    THEN [idx |-> idx + 1, pending |-> stack[idx + 1], status |-> "waiting",
          began |-> <<stack[idx + 1]>>]
    ELSE [idx |-> idx, pending |-> "none", status |-> "done", began |-> <<>>]

do_cleanup_step(stack, idx, vb) ==
    IF idx < Len(stack)
    THEN LET fn == stack[idx + 1] IN
         IF fn = SUB_TERMINATE /\ ~vb.monitored
         THEN [idx |-> idx + 1, pending |-> "none", status |-> "aborted", began |-> <<fn>>]
         ELSE [idx |-> idx + 1, pending |-> fn, status |-> "waiting", began |-> <<fn>>]
    ELSE [idx |-> idx, pending |-> "none", status |-> "done", began |-> <<>>]

\* The effect of an activation's step `st` on the process: do_emergency (the only
\* caller of do_cleanup once the process runs) goes on to process.exit() when
\* do_cleanup has returned, a throw leaves a rejected promise behind. `rejected`
\* counts the promises the triggering handler itself left rejected.
do_emergency_resume(st, rejected) ==
    /\ startLog' = startLog \o st.began
    /\ rejections' = rejections + rejected + (IF st.status = "aborted" THEN 1 ELSE 0)
    /\ IF st.status = "done"
       THEN exitCode' = 1 /\ exitVia' = "process.exit"
       ELSE UNCHANGED <<exitCode, exitVia>>

\* A shutdown trigger calls do_emergency, hence do_cleanup: the array is reversed in
\* place and the iteration starts.
do_emergency(rejected) ==
    LET rev == Reverse(cleanup_stack)
        st == do_cleanup_step(rev, 0, varbox)
    IN /\ cleanup_stack' = rev
       /\ runs' = Append(runs, [idx |-> st.idx, pending |-> st.pending,
                                status |-> st.status])
       /\ do_emergency_resume(st, rejected)

Triggers == Len(runs)

\* process.addListener('SIGINT', ...): do_emergency().
SIGINT ==
    /\ ~exited
    /\ UNCHANGED <<listeners, producerCalls>>
    /\ UNCHANGED otherVars
    /\ Triggers < MaxTriggers
    /\ do_emergency(0)
    /\ UNCHANGED <<mainpc, mainError, prodpc, varbox, registered, settled, streamEnd>>

\* The promise a cleanup action returned fulfils; the activation awaiting it resumes
\* in the same turn and takes the next element of the array.
Settle(r) ==
    /\ ~exited
    /\ UNCHANGED <<listeners, producerCalls>>
    /\ UNCHANGED otherVars
    /\ r \in DOMAIN runs
    /\ runs[r].status = "waiting"
    /\ LET st == do_cleanup_step(cleanup_stack, runs[r].idx, varbox) IN
       /\ settled' = [settled EXCEPT ![runs[r].pending] = @ + 1]
       /\ runs' = [runs EXCEPT ![r] = [idx |-> st.idx, pending |-> st.pending,
                                       status |-> st.status]]
       /\ do_emergency_resume(st, 0)
    /\ UNCHANGED <<mainpc, mainError, prodpc, varbox, cleanup_stack, registered, streamEnd>>

\* A rejected promise nobody handles: depending on the runtime's policy the process
\* is ended with exit code 1, or only warned about (no step).
UnhandledRejection ==
    /\ ~exited
    /\ UNCHANGED <<listeners, producerCalls>>
    /\ UNCHANGED otherVars
    /\ rejections > 0
    /\ exitVia' = "unhandledRejection"
    /\ exitCode' = 1
    /\ UNCHANGED <<mainpc, mainError, prodpc, varbox, cleanup_stack, registered, runs,
                   startLog, settled, rejections, streamEnd>>

\* cleanup_stack.push(fn)
Push(fn) ==
    /\ cleanup_stack' = Append(cleanup_stack, fn)
    /\ registered' = Append(registered, fn)

\* --------------------------------------------------------------------- Main
\* The cleanup actions started so far.
Started == {startLog[i] : i \in 1..Len(startLog)}

\* Requests to the OPC UA server and to the IoT hub are answered by the libraries,
\* whose code is not part of the program. A request still outstanding when the close
\* of its connection was started is taken to stay unanswered: the steps below resume
\* an await only while the connection it waits on has not been asked to close.
OpcOpen == DISCONNECT \notin Started /\ SESSION_CLOSE \notin Started
HubOpen == CLIENT_CLOSE \notin Started

\* MakeOPCConnection: opcclient.connect resolved.
ConnectResolved ==
    /\ ~exited
    /\ UNCHANGED <<listeners, producerCalls>>
    /\ UNCHANGED otherVars
    /\ mainpc = "connect"
    /\ Push(DISCONNECT)
    /\ mainpc' = "createSession"
    /\ UNCHANGED <<mainError, prodpc, varbox, runs, startLog, settled, rejections,
                   streamEnd, exitVia, exitCode>>

\* MakeOPCConnection: opcclient.createSession resolved; CreateInterfaces issues the probe.
CreateSessionResolved ==
    /\ ~exited
    /\ UNCHANGED <<listeners, producerCalls>>
    /\ OpcOpen
    /\ UNCHANGED otherVars
    /\ mainpc = "createSession"
    /\ Push(SESSION_CLOSE)
    /\ mainpc' = "probe"
    /\ UNCHANGED <<mainError, prodpc, varbox, runs, startLog, settled, rejections,
                   streamEnd, exitVia, exitCode>>

\* CreateInterfaces: the DisplayName reads came back, `failing` being the fields with
\* a nonzero status.
ProbeResolved(failing) ==
    /\ ~exited
    /\ UNCHANGED <<listeners, producerCalls>>
    /\ OpcOpen
    /\ UNCHANGED otherVars
    /\ mainpc = "probe"
    /\ IF failing = {}
       THEN /\ mainpc' = "initialRead"
            /\ UNCHANGED <<mainError, rejections>>
       ELSE /\ mainpc' = "failed"
            /\ mainError' = MissingFields(failing)
            /\ UNCHANGED rejections
    /\ UNCHANGED <<prodpc, varbox, cleanup_stack, registered, runs, startLog, settled,
                   streamEnd, exitVia, exitCode>>

\* CreateInterfaces: the Value reads came back; the stream and the methods are built,
\* the subscription cleanup is pushed, and CreateAzureInterfaces calls client.open().
InitialReadResolved(reads) ==
    /\ ~exited
    /\ UNCHANGED <<listeners, producerCalls>>
    /\ OpcOpen
    /\ mainpc = "initialRead"
    /\ state' = InitialState(reads)
    /\ UNCHANGED <<filterVars, methodVars, emitted, televalue, errLast, rateLast, sent,
                   reported, ticks, timers>>
    /\ Push(SUB_TERMINATE)
    /\ mainpc' = "open"
    /\ UNCHANGED <<mainError, prodpc, varbox, runs, startLog, settled, rejections,
                   streamEnd, exitVia, exitCode>>

\* A stream that starts its producer for every listener it is given.
starts_always(n) == 1

\* How many times the stream library calls the producer's start() when a listener
\* is added to a stream that has n listeners: once for the first listener, not at
\* all for a later one. start() issues session.createSubscription2 at once.
starts(n) == IF n = 0 THEN 1 ELSE 0

\* CreateAzureInterfaces: client.open() resolved; the first listener subscribes, which
\* starts the producer, and client.getTwin() is called.
OpenResolved ==
    /\ ~exited
    /\ HubOpen
    /\ UNCHANGED otherVars
    /\ mainpc = "open"
    /\ Push(CLIENT_CLOSE)
    /\ listeners' = listeners + 1
    /\ producerCalls' = [producerCalls EXCEPT !.createSubscription2 = @ + starts(listeners)]
    /\ prodpc' = "createSubscription"
    /\ mainpc' = "getTwin"
    /\ UNCHANGED <<mainError, varbox, runs, startLog, settled, rejections,
                   streamEnd, exitVia, exitCode>>

\* CreateAzureInterfaces: client.getTwin() resolved; the desired-property handler,
\* the two filtered subscriptions, the direct methods and the send timer are set up.
\* The live stream is a memory stream: a listener added after the first emission is
\* given the last emitted snapshot at once.
GetTwinResolved ==
    /\ ~exited
    /\ HubOpen
    /\ mainpc = "getTwin"
    /\ LET replay == IF emitted = <<>> THEN <<>> ELSE <<Last(emitted)>>
           e == IF replay = <<>>
                THEN [last_val |-> errLast, sent |-> <<>>, reported |-> <<>>]
                ELSE ErrorRelay(replay[1], errLast, now)
           p == IF replay = <<>>
                THEN [last_val |-> rateLast, reported |-> <<>>]
                ELSE RateRelay(replay[1], rateLast)
       IN /\ errLast' = e.last_val
          /\ rateLast' = p.last_val
          /\ sent' = sent \o e.sent
          /\ reported' = reported \o e.reported \o p.reported
    /\ timers' = timers + 1
    /\ UNCHANGED <<filterVars, methodVars, state, emitted, televalue, ticks>>
    /\ listeners' = listeners + 2
    /\ producerCalls' = [producerCalls EXCEPT
                           !.createSubscription2 = @ + starts(listeners) + starts(listeners + 1)]
    /\ mainpc' = "ready"
    /\ UNCHANGED <<mainError, prodpc, varbox, cleanup_stack, registered, runs, startLog,
                   settled, rejections, streamEnd, exitVia, exitCode>>

\* ------------------------------------------------------- the stream producer
\* start(): session.createSubscription2 resolved.
CreateSubscriptionResolved ==
    /\ ~exited
    /\ OpcOpen
    /\ UNCHANGED otherVars
    /\ prodpc = "createSubscription"
    /\ varbox' = [varbox EXCEPT !.opc_sub = TRUE]
    /\ producerCalls' = [producerCalls EXCEPT !.monitorItems = @ + 1]
    /\ UNCHANGED listeners
    /\ prodpc' = "monitorItems"
    /\ UNCHANGED <<mainpc, mainError, cleanup_stack, registered, runs, startLog, settled,
                   rejections, streamEnd, exitVia, exitCode>>

\* start(): opc_sub.monitorItems resolved; the change callback is attached.
MonitorItemsResolved ==
    /\ ~exited
    /\ OpcOpen
    /\ UNCHANGED otherVars
    /\ prodpc = "monitorItems"
    /\ varbox' = [varbox EXCEPT !.monitored = TRUE, !.changeCallback = TRUE]
    /\ producerCalls' = [producerCalls EXCEPT !.on = @ + 1]
    /\ UNCHANGED listeners
    /\ prodpc' = "running"
    /\ UNCHANGED <<mainpc, mainError, cleanup_stack, registered, runs, startLog, settled,
                   rejections, streamEnd, exitVia, exitCode>>

\* The live stream completes or errors while it is running (the producer of the
\* program never signals either by itself: the step stands for the stream library
\* delivering the event the listener is written for). The stream tears its producer
\* down (stop(): the callback is detached, then `monitored.terminate()` names a
\* variable that does not exist, so stop() rejects) and calls the first listener's
\* complete()/error(), which calls do_emergency(). An ended stream has dropped its
\* listeners.
StreamEnds(how) ==
    /\ ~exited
    /\ UNCHANGED otherVars
    /\ prodpc = "running"
    /\ streamEnd = "none"
    /\ Triggers < MaxTriggers
    /\ streamEnd' = how
    /\ prodpc' = "stopped"
    /\ varbox' = [varbox EXCEPT !.changeCallback = FALSE]
    /\ producerCalls' = [producerCalls EXCEPT !.off = @ + 1]
    /\ listeners' = 0
    /\ do_emergency(1)
    /\ UNCHANGED <<mainpc, mainError, registered, settled>>

\* varbox.changeCallback(item, data, idx): the monitored item of index idx (0-based)
\* reports `value`. The slot is updated, the whole state is emitted, and the stream
\* hands the snapshot to its listeners in the order they subscribed: the forwarder's
\* slot, then (once subscribed) the DeviceError and the ProductionRate relays.
\* Like the answers to requests, notifications are taken to arrive only while neither
\* the monitored items nor the OPC UA connection have been asked to close.
changeCallback(idx, value) ==
    /\ ~exited
    /\ OpcOpen
    /\ SUB_TERMINATE \notin Started
    /\ varbox.changeCallback
    /\ Len(emitted) < MaxNotify
    /\ LET st == [state EXCEPT ![idx + 1] = <<state[idx + 1][1], value>>]
           reads == fromEntries(st)
           subscribed == mainpc = "ready"
           e == IF subscribed THEN ErrorRelay(reads, errLast, now)
                ELSE [last_val |-> errLast, sent |-> <<>>, reported |-> <<>>]
           p == IF subscribed THEN RateRelay(reads, rateLast)
                ELSE [last_val |-> rateLast, reported |-> <<>>]
       IN /\ state' = st
          /\ emitted' = Append(emitted, reads)
          /\ televalue' = televalue_next(reads, televalue)
          /\ errLast' = e.last_val
          /\ rateLast' = p.last_val
          /\ sent' = sent \o e.sent
          /\ reported' = reported \o e.reported \o p.reported
    /\ UNCHANGED <<lifeVars, filterVars, methodVars, ticks, timers>>

\* A SendTelemetry that returns without scheduling itself again when it skips.
SendTelemetry_skipEnds ==
    /\ ~exited
    /\ timers > 0
    /\ ticks < MaxTicks
    /\ ticks' = ticks + 1
    /\ sent' = IF televalue # UNDEFINED THEN Append(sent, TelemetryData(televalue)) ELSE sent
    /\ timers' = IF televalue # UNDEFINED THEN (timers - 1) + 1 ELSE timers - 1
    /\ UNCHANGED <<lifeVars, filterVars, methodVars, state, emitted, televalue, errLast,
                   rateLast, reported>>

\* SendTelemetry, run by its timeout: publishes the slot if it holds a value, and
\* schedules itself again.
SendTelemetry ==
    /\ ~exited
    /\ timers > 0
    /\ ticks < MaxTicks
    /\ ticks' = ticks + 1
    /\ sent' = IF televalue # UNDEFINED THEN Append(sent, TelemetryData(televalue)) ELSE sent
    /\ timers' = (timers - 1) + 1
    /\ UNCHANGED <<lifeVars, filterVars, methodVars, state, emitted, televalue, errLast,
                   rateLast, reported>>

\* ------------------------------------------------------- the direct methods
\* The status codes of a CallMethodResult that are explored: `value` is what the
\* handler compares with 0 (the upper 16 bits of the 32-bit code), `text` is what
\* statusCode.toString() gives.
StatusCodes == {[value |-> 0, text |-> "Good (0x00000000)"],
                [value |-> 32820, text |-> "BadNodeIdUnknown (0x80340000)"],
                [value |-> 32885, text |-> "BadMethodInvalid (0x80750000)"]}

DeviceMethods == {"EmergencyStop", "ResetErrorStatus"}

\* A handler that answers with the failure response whatever the status.
MethodResponse_alwaysFailure(opcres) == [code |-> 400, payload |-> <<opcres.text>>]

\* What the EmergencyStop and ResetErrorStatus handlers send for the result of the
\* device call: res.send(200) or res.send(400, opcres.statusCode.toString()).
MethodResponse(opcres) ==
    IF opcres.value = 0
    THEN [code |-> 200, payload |-> <<>>]
    ELSE [code |-> 400, payload |-> <<opcres.text>>]

\* methods.emergencyStop() and methods.resetErrorStatus(): the session.call request.
DeviceCall(method) == [objectId |-> "device_id", methodId |-> <<"device_id", "/", method>>]

\* The hub invokes a direct method. EmergencyStop and ResetErrorStatus issue the
\* device call and suspend on it; MaintenanceDone patches the reported twin and
\* returns.
InvokeMethod(method) ==
    /\ ~exited
    /\ mainpc = "ready"
    /\ Len(invocations) < MaxInvocations
    /\ IF method \in DeviceMethods
       THEN /\ invocations' = Append(invocations, [method |-> method, at |-> now,
                                                   pc |-> "call", responses |-> <<>>])
            /\ deviceCalls' = Append(deviceCalls, [by |-> Len(invocations) + 1,
                                                   request |-> DeviceCall(method)])
            /\ UNCHANGED reported
       ELSE /\ invocations' = Append(invocations, [method |-> method, at |-> now,
                                                   pc |-> "returned", responses |-> <<>>])
            /\ reported' = Append(reported, [LastMaintenanceDate |-> now])
            /\ UNCHANGED deviceCalls
    /\ UNCHANGED <<lifeVars, filterVars, now, state, emitted, televalue, errLast,
                   rateLast, sent, ticks, timers, twinEvents, deviceWrites>>

\* The device answers the session.call of invocation i with the result opcres; the
\* handler resumes and responds.
CallReturns(i, opcres) ==
    /\ ~exited
    /\ i \in DOMAIN invocations
    /\ invocations[i].pc = "call"
    /\ invocations' = [invocations EXCEPT
                         ![i].pc = "returned",
                         ![i].responses = Append(@, MethodResponse(opcres))]
    /\ UNCHANGED <<lifeVars, filterVars, relayVars, deviceCalls, now, twinEvents,
                   deviceWrites>>

\* Time passes.
ClockAdvance ==
    /\ ~exited
    /\ now < MaxClock
    /\ now' = now + 1
    /\ UNCHANGED <<lifeVars, filterVars, relayVars, invocations, deviceCalls, twinEvents,
                   deviceWrites>>

\* ------------------------------------------------- the desired ProductionRate
\* The desired rates the hub delivers that are explored.
DesiredRates == {40, 60}

\* methods.setProductionRate(new_rate): the session.write request.
DeviceWrite(new_rate) ==
    [nodeId |-> <<"device_id", "/", "ProductionRate">>, attributeId |-> "Value",
     dataType |-> "Int32", value |-> new_rate]

\* A handler that also reports the rate it was given to the twin.
DesiredRateChanged_confirms(delta) ==
    /\ ~exited
    /\ mainpc = "ready"
    /\ Len(twinEvents) < MaxDesired
    /\ twinEvents' = Append(twinEvents, [delta |-> delta, pc |-> "write"])
    /\ deviceWrites' = Append(deviceWrites, [by |-> Len(twinEvents) + 1,
                                            request |-> DeviceWrite(delta)])
    /\ reported' = Append(reported, [ProductionRate |-> delta])
    /\ UNCHANGED <<lifeVars, filterVars, invocations, deviceCalls, now, state, emitted,
                   televalue, errLast, rateLast, sent, ticks, timers>>

\* The twin raises 'properties.desired.ProductionRate' with the value `delta`: the
\* handler calls methods.setProductionRate(delta), which issues the write, and
\* suspends on it.
DesiredRateChanged(delta) ==
    /\ ~exited
    /\ mainpc = "ready"
    /\ Len(twinEvents) < MaxDesired
    /\ twinEvents' = Append(twinEvents, [delta |-> delta, pc |-> "write"])
    /\ deviceWrites' = Append(deviceWrites, [by |-> Len(twinEvents) + 1,
                                            request |-> DeviceWrite(delta)])
    /\ UNCHANGED <<lifeVars, filterVars, relayVars, invocations, deviceCalls, now>>

\* The device answers the session.write of event i; the handler resumes and returns,
\* whatever the status.
WriteReturns(i) ==
    /\ ~exited
    /\ i \in DOMAIN twinEvents
    /\ twinEvents[i].pc = "write"
    /\ twinEvents' = [twinEvents EXCEPT ![i].pc = "returned"]
    /\ UNCHANGED <<lifeVars, filterVars, relayVars, invocations, deviceCalls, deviceWrites,
                   now>>

\* ------------------------------------------------- the stand-alone filter
\* One activation of a stand-alone filter is followed: from the first listener on
\* its output to the end of its upstream or to its teardown. The stream library runs
\* the producer: start(listener) when the output gets its first listener; stop()
\* when the output is torn down, which is when its last listener was removed and,
\* before the listeners are notified, when listener.complete() or listener.error()
\* is called on it.
\*
\* How an upstream can end: by completing, or with an error value.
NoEnd == [kind |-> "none", err |-> 0]
Ends == {[kind |-> "complete", err |-> 0], [kind |-> "error", err |-> 1],
         [kind |-> "error", err |-> 2]}

\* What an upstream delivers while stream.subscribe() is still executing: nothing or
\* one value (a remembered value, or the output of a synchronous producer).
SyncValues == {<<>>} \cup {<<value>> : value \in Values}

\* stop(): sub.unsubscribe(). While sub is still undefined the call throws.
stop(s) ==
    IF s = "undefined"
    THEN [unsubscribed |-> 0, error |-> "TypeError"]
    ELSE [unsubscribed |-> 1, error |-> "none"]

\* start(listener): sub = stream.subscribe({next, error, complete}). The upstream
\* delivers `sync` and, if `end` is not NoEnd, ends, all before stream.subscribe()
\* returns, i.e. before sub is assigned. The upstream listener passes the end on with
\* listener.complete()/listener.error(err), on which the library stops the producer
\* before it notifies the downstream listener: an exception thrown by stop() leaves
\* start() through stream.subscribe(), so that nothing is assigned to sub and the
\* downstream listener is not notified.
FilterStart(sync, end) ==
    /\ fpc = "idle"
    /\ subscribes' = subscribes + 1
    /\ LET r == IF sync = <<>> THEN [last_val |-> last_val, emit |-> <<>>]
                ELSE changes_only_next(sync[1], last_val)
       IN /\ last_val' = r.last_val
          /\ fout' = fout \o r.emit
    /\ fin' = fin \o sync
    /\ upEnd' = end
    /\ IF end = NoEnd
       THEN /\ sub' = "subscription"
            /\ fpc' = "started"
            /\ UNCHANGED <<unsubscribes, fend, filterError>>
       ELSE LET st == stop(sub) IN
            /\ unsubscribes' = unsubscribes + st.unsubscribed
            /\ filterError' = st.error
            /\ fend' = IF st.error = "none" THEN Append(fend, end) ELSE fend
            /\ fpc' = IF st.error = "none" THEN "stopped" ELSE "failed"
            /\ UNCHANGED sub
    /\ UNCHANGED <<lifeVars, relayVars, methodVars>>

\* The upstream ends after start() has returned: error(err) or complete() of the
\* upstream listener calls listener.error(err) or listener.complete(); the library
\* stops the producer and notifies the downstream listener.
UpstreamEnds(end) ==
    /\ fpc = "started"
    /\ upEnd = NoEnd
    /\ upEnd' = end
    /\ LET st == stop(sub) IN
       /\ unsubscribes' = unsubscribes + st.unsubscribed
       /\ filterError' = st.error
       /\ fend' = IF st.error = "none" THEN Append(fend, end) ELSE fend
       /\ fpc' = IF st.error = "none" THEN "stopped" ELSE "failed"
    /\ UNCHANGED <<last_val, fin, fout, sub, subscribes>>
    /\ UNCHANGED <<lifeVars, relayVars, methodVars>>

\* The filter's own teardown: its last listener was removed and the library stops
\* the producer.
FilterStop ==
    /\ fpc = "started"
    /\ LET st == stop(sub) IN
       /\ unsubscribes' = unsubscribes + st.unsubscribed
       /\ filterError' = st.error
       /\ fpc' = IF st.error = "none" THEN "stopped" ELSE "failed"
    /\ UNCHANGED <<last_val, fin, fout, sub, subscribes, upEnd, fend>>
    /\ UNCHANGED <<lifeVars, relayVars, methodVars>>

\* The upstream of the filter delivers `value` (it does so only to a subscribed
\* listener, and not after it has ended).
FilterNext(value) ==
    /\ fpc = "started"
    /\ upEnd = NoEnd
    /\ UNCHANGED <<fpc, sub, subscribes, unsubscribes, upEnd, fend, filterError>>
    /\ Len(fin) < MaxUpstream
    /\ LET r == changes_only_next(value, last_val) IN
       /\ last_val' = r.last_val
       /\ fout' = fout \o r.emit
    /\ fin' = Append(fin, value)
    /\ UNCHANGED <<lifeVars, relayVars, methodVars>>

\* ------------------------------------------------------------ specification
Init ==
    /\ mainpc = "connect"
    /\ mainError = <<>>
    /\ prodpc = "idle"
    /\ varbox = [opc_sub |-> FALSE, monitored |-> FALSE, changeCallback |-> FALSE]
    /\ listeners = 0
    /\ producerCalls = [createSubscription2 |-> 0, monitorItems |-> 0, on |-> 0, off |-> 0]
    /\ cleanup_stack = <<>>
    /\ registered = <<>>
    /\ runs = <<>>
    /\ startLog = <<>>
    /\ settled = [a \in CleanupActions |-> 0]
    /\ rejections = 0
    /\ streamEnd = "none"
    /\ exitVia = "none"
    /\ exitCode = 0
    /\ last_val = UNDEFINED
    /\ fin = <<>>
    /\ fout = <<>>
    /\ fpc = "idle"
    /\ sub = "undefined"
    /\ subscribes = 0
    /\ unsubscribes = 0
    /\ upEnd = NoEnd
    /\ fend = <<>>
    /\ filterError = "none"
    /\ state = <<>>
    /\ emitted = <<>>
    /\ televalue = UNDEFINED
    /\ errLast = UNDEFINED
    /\ rateLast = UNDEFINED
    /\ sent = <<>>
    /\ reported = <<>>
    /\ ticks = 0
    /\ timers = 0
    /\ invocations = <<>>
    /\ deviceCalls = <<>>
    /\ twinEvents = <<>>
    /\ deviceWrites = <<>>
    /\ now = 0

\* The program from start-up to its exit, with the shutdown triggers.
Next ==
    \/ ConnectResolved
    \/ CreateSessionResolved
    \/ \E failing \in ProbeFailures : ProbeResolved(failing)
    \/ \E reads \in InitialReads : InitialReadResolved(reads)
    \/ OpenResolved
    \/ GetTwinResolved
    \/ CreateSubscriptionResolved
    \/ MonitorItemsResolved
    \/ SIGINT
    \/ \E how \in {"complete", "error"} : StreamEnds(how)
    \/ \E r \in 1..MaxTriggers : Settle(r)
    \/ UnhandledRejection

Spec == Init /\ [][Next]_vars

\* The bridge in operation: start-up, change notifications and the send timer.
NextRelay ==
    \/ ConnectResolved
    \/ CreateSessionResolved
    \/ \E failing \in ProbeFailures : ProbeResolved(failing)
    \/ \E reads \in InitialReads : InitialReadResolved(reads)
    \/ OpenResolved
    \/ GetTwinResolved
    \/ CreateSubscriptionResolved
    \/ MonitorItemsResolved
    \/ \E idx \in 0..(Len(TelemetryFields) - 1) :
          \E value \in FieldValues(TelemetryFields[idx + 1]) : changeCallback(idx, value)
    \/ SendTelemetry

SpecRelay == Init /\ [][NextRelay]_vars

\* The bridge serving direct methods: start-up, invocations and the device's answers.
NextMethods ==
    \/ ConnectResolved
    \/ CreateSessionResolved
    \/ \E failing \in ProbeFailures : ProbeResolved(failing)
    \/ \E reads \in InitialReads : InitialReadResolved(reads)
    \/ OpenResolved
    \/ GetTwinResolved
    \/ CreateSubscriptionResolved
    \/ MonitorItemsResolved
    \/ \E method \in DeviceMethods \cup {"MaintenanceDone"} : InvokeMethod(method)
    \/ \E i \in 1..MaxInvocations : \E opcres \in StatusCodes : CallReturns(i, opcres)
    \/ ClockAdvance

SpecMethods == Init /\ [][NextMethods]_vars

\* The bridge following the twin: start-up, changes of the desired ProductionRate
\* and the device's answers to the writes.
NextTwin ==
    \/ ConnectResolved
    \/ CreateSessionResolved
    \/ \E failing \in ProbeFailures : ProbeResolved(failing)
    \/ \E reads \in InitialReads : InitialReadResolved(reads)
    \/ OpenResolved
    \/ GetTwinResolved
    \/ CreateSubscriptionResolved
    \/ MonitorItemsResolved
    \/ \E delta \in DesiredRates : DesiredRateChanged(delta)
    \/ \E i \in 1..MaxDesired : WriteReturns(i)

SpecTwin == Init /\ [][NextTwin]_vars

\* The position of the field f in `fields`.
FieldIndex(f) == CHOOSE i \in 1..Len(fields) : fields[i] = f

\* The bridge shut down while in operation: start-up, change notifications (of the
\* DeviceError item), the send timer, SIGINT and the cleanup actions settling.
NextClosing ==
    \/ ConnectResolved
    \/ CreateSessionResolved
    \/ \E failing \in ProbeFailures : ProbeResolved(failing)
    \/ \E reads \in InitialReads : InitialReadResolved(reads)
    \/ OpenResolved
    \/ GetTwinResolved
    \/ CreateSubscriptionResolved
    \/ MonitorItemsResolved
    \/ \E value \in FieldValues("DeviceError") :
          changeCallback(FieldIndex("DeviceError") - 1, value)
    \/ SendTelemetry
    \/ SIGINT
    \/ \E r \in 1..MaxTriggers : Settle(r)

SpecClosing == Init /\ [][NextClosing]_vars

\* A change filter on an arbitrary upstream.
NextFilter ==
    \/ \E sync \in SyncValues : \E end \in Ends \cup {NoEnd} : FilterStart(sync, end)
    \/ \E value \in Values : FilterNext(value)
    \/ \E end \in Ends : UpstreamEnds(end)
    \/ FilterStop

SpecFilter == Init /\ [][NextFilter]_vars

\* ================================================================ properties
\* How often the cleanup action a has been started.
Starts(a) == Cardinality(Positions(startLog, a))

\* The position of the cleanup action a in the order of registration.
RegIndex(a) == CHOOSE i \in 1..Len(registered) : registered[i] = a

\* The do_emergency activations suspended on a cleanup action's promise.
Waiting == {r \in DOMAIN runs : runs[r].status = "waiting"}

\* C1: whatever the number and timing of the shutdown triggers, each registered
\* cleanup action is started at most once.
C1_StartedAtMostOnce == \A a \in CleanupActions : Starts(a) <= 1

\* C2: the cleanup actions are started in the exact reverse of their registration
\* order, and an action is started only once the previously started one has settled
\* (so at most one started action is unsettled at any time).
C2_ReverseOrderOneAtATime ==
    /\ \A i, j \in 1..Len(startLog) :
          i < j => RegIndex(startLog[i]) > RegIndex(startLog[j])
    /\ Cardinality(Waiting) <= 1

\* C3: once a shutdown has been triggered, process.exit() happens only after every
\* registered cleanup action (the first-registered one in particular) has settled.
C3_ExitAfterAllSettled ==
    exitVia = "process.exit" => \A i \in 1..Len(registered) : settled[registered[i]] >= 1

\* C4: if the live stream completed or errored, the process exits through
\* do_emergency only with exit code 1 and after the full cleanup sequence has been
\* executed (every registered action has run to its end).
C4_StreamEndCleansUpThenExits ==
    (streamEnd # "none" /\ exitVia = "process.exit") =>
        /\ exitCode = 1
        /\ \A i \in 1..Len(registered) : settled[registered[i]] >= 1

\* Structural (deep) equality of two values, identity left aside.
DeepEqual(a, b) == a.kind = b.kind /\ a.v = b.v

\* s is a subsequence of t: s can be obtained from t by dropping elements.
RECURSIVE IsSubseq(_, _)
IsSubseq(s, t) ==
    IF s = <<>> THEN TRUE
    ELSE IF t = <<>> THEN FALSE
    ELSE IF Head(s) = Head(t) THEN IsSubseq(Tail(s), Tail(t))
    ELSE IsSubseq(s, Tail(t))

\* C5: the change filter emits the first value it receives unconditionally, whatever
\* that value is (undefined and null included): exactly one emission, of that value.
C5_FirstValueEmitted == Len(fin) = 1 => fout = <<fin[1]>>

\* C6: after its first emission the filter emits an upstream value exactly when it is
\* not deep-equal to the last emitted value; no two consecutive emissions are
\* deep-equal, and the emissions are an order-preserving subsequence of the upstream.
C6_EmitsIffChanged ==
    /\ [][(fout # <<>> /\ fin' # fin) =>
             IF DeepEqual(Last(fin'), Last(fout))
             THEN fout' = fout
             ELSE fout' = Append(fout, Last(fin'))]_vars
    /\ [](\A i \in 1..(Len(fout) - 1) : ~DeepEqual(fout[i], fout[i + 1]))
    /\ []IsSubseq(fout, fin)

\* C6 witness: after a first emission, a second object deep-equal to the emitted one
\* was suppressed and a following distinct value was emitted.
C6_Witness ==
    /\ Len(fin) = 3
    /\ fin[1].ref # fin[2].ref
    /\ DeepEqual(fin[1], fin[2])
    /\ ~DeepEqual(fin[2], fin[3])
    /\ fout = <<fin[1], fin[3]>>

\* The error messages sent, and the reported-twin patches that carry Error.
ErrorMsgs == SelectSeq(sent, LAMBDA m : m.type = "error")
ErrorPatches == SelectSeq(reported, LAMBDA u : "Error" \in DOMAIN u)

\* C7: a send tick taken after at least one DeviceState was emitted publishes exactly
\* one message, derived from the most recently emitted DeviceState.
C7_TickPublishesLatest ==
    [][(ticks' = ticks + 1 /\ emitted # <<>>) =>
          sent' = Append(sent, TelemetryData(Last(emitted)))]_vars

\* C7 witness: two differing snapshots were emitted before a tick, and the message
\* published last is the one derived from the second.
C7_Witness ==
    /\ Len(emitted) = 2
    /\ ticks >= 1
    /\ sent # <<>>
    /\ TelemetryData(emitted[1]) # TelemetryData(emitted[2])
    /\ Last(sent) = TelemetryData(emitted[2])

\* C8: in the turn in which the relay observes a snapshot (a notification once it is
\* subscribed, or the replayed snapshot when it subscribes) it sends exactly one
\* error message and issues exactly one {Error, LastErrorDate} patch if the
\* DeviceError is the first it observes or differs from the previously sent one, and
\* none otherwise; no other turn sends an error message or an Error patch.
C8_ErrorRelayedOncePerChange ==
    [][LET observes == \/ mainpc = "ready" /\ emitted' # emitted
                       \/ mainpc = "getTwin" /\ mainpc' = "ready" /\ emitted # <<>>
           d == Last(emitted').DeviceError
       IN IF observes /\ (ErrorMsgs = <<>> \/ Last(ErrorMsgs).DeviceError # d)
          THEN /\ ErrorMsgs' = Append(ErrorMsgs, [type |-> "error", DeviceError |-> d])
               /\ ErrorPatches' = Append(ErrorPatches, [Error |-> d, LastErrorDate |-> now])
               /\ Len(sent') = Len(sent) + 1
          ELSE /\ ErrorMsgs' = ErrorMsgs
               /\ ErrorPatches' = ErrorPatches]_vars

\* C8 witness: three snapshots, the second leaving DeviceError as it was and the
\* third changing it; two error messages and two patches went out.
C8_Witness ==
    /\ Len(emitted) = 3
    /\ emitted[1].DeviceError = emitted[2].DeviceError
    /\ emitted[2].DeviceError # emitted[3].DeviceError
    /\ ErrorMsgs = <<[type |-> "error", DeviceError |-> emitted[1].DeviceError],
                     [type |-> "error", DeviceError |-> emitted[3].DeviceError]>>
    /\ Len(ErrorPatches) = 2

\* The session.call requests issued on behalf of invocation i.
CallsBy(i) == SelectSeq(deviceCalls, LAMBDA c : c.by = i)

\* C9: an invocation of EmergencyStop or ResetErrorStatus calls the corresponding
\* device method exactly once; once that call has returned exactly one response has
\* been sent (none before), 200 for status 0 and 400 with the status text otherwise.
C9_DeviceMethodResponse ==
    /\ [](\A i \in DOMAIN invocations :
            invocations[i].method \in DeviceMethods =>
              /\ Len(CallsBy(i)) = 1
              /\ CallsBy(i)[1].request.methodId = <<"device_id", "/", invocations[i].method>>
              /\ invocations[i].pc = "call" => invocations[i].responses = <<>>
              /\ invocations[i].pc = "returned" => Len(invocations[i].responses) = 1)
    /\ [][\A i \in DOMAIN invocations : \A opcres \in StatusCodes :
            (CallReturns(i, opcres) /\ invocations[i].method \in DeviceMethods) =>
               invocations'[i].responses =
                 <<IF opcres.value = 0
                   THEN [code |-> 200, payload |-> <<>>]
                   ELSE [code |-> 400, payload |-> <<opcres.text>>]>>]_vars

\* C9 witness: one invocation was answered with success and another with a failure
\* carrying a status text.
C9_Witness ==
    \E i, j \in DOMAIN invocations :
        /\ invocations[i].responses = <<[code |-> 200, payload |-> <<>>]>>
        /\ Len(invocations[j].responses) = 1
        /\ invocations[j].responses[1].code = 400
        /\ invocations[j].responses[1].payload # <<>>

\* C10: every invocation of MaintenanceDone is answered with a success response,
\* makes no device call, and patches LastMaintenanceDate to the invocation time.
C10_MaintenanceDoneSucceeds ==
    \A i \in DOMAIN invocations :
        (invocations[i].method = "MaintenanceDone" /\ invocations[i].pc = "returned") =>
            /\ Len(invocations[i].responses) = 1
            /\ invocations[i].responses[1].code = 200
            /\ CallsBy(i) = <<>>
            /\ \E k \in DOMAIN reported :
                  reported[k] = [LastMaintenanceDate |-> invocations[i].at]

\* The periodic messages among those sent.
TelemetryMsgs == SelectSeq(sent, LAMBDA m : m.type = "telemetry")

\* C11: every periodic telemetry message has no DeviceError and no ProductionRate
\* key, has type 'telemetry', and carries GoodCount and BadCount as the numbers read
\* from element [1] of the pairs of an emitted DeviceState, whose other telemetry
\* fields it carries as they are.
C11_TelemetryShape ==
    \A i \in DOMAIN TelemetryMsgs :
        LET m == TelemetryMsgs[i] IN
        /\ DOMAIN m = {"type", "ProductionStatus", "WorkorderId", "GoodCount", "BadCount",
                       "Temperature"}
        /\ m.GoodCount \in Nat
        /\ m.BadCount \in Nat
        /\ \E k \in DOMAIN emitted :
              /\ m.GoodCount = emitted[k].GoodCount[2]
              /\ m.BadCount = emitted[k].BadCount[2]
              /\ \A f \in {"ProductionStatus", "WorkorderId", "Temperature"} :
                    m[f] = emitted[k][f]

\* C11 witness: a periodic message was sent for a DeviceState that has a DeviceError
\* and a ProductionRate and whose counters are pairs.
C11_Witness ==
    /\ TelemetryMsgs # <<>>
    /\ emitted # <<>>
    /\ {"DeviceError", "ProductionRate"} \subseteq DOMAIN Last(emitted)
    /\ Last(emitted).GoodCount = <<0, 11>>
    /\ Last(TelemetryMsgs).GoodCount = 11

\* C12: a send tick taken before any DeviceState was emitted sends nothing, no tick
\* sends more than one message (nothing is queued for later ticks), and every tick
\* leaves exactly one send timer pending: from the moment the forwarder is set up
\* exactly one timer is pending, and none before.
C12_SkipAndReschedule ==
    /\ [][ticks' = ticks + 1 =>
             /\ emitted = <<>> => sent' = sent
             /\ Len(sent') <= Len(sent) + 1
             /\ timers' = 1]_vars
    /\ [](timers = IF mainpc = "ready" THEN 1 ELSE 0)

\* C12 witness: of two ticks the first found no DeviceState and was skipped, the
\* second published one message, and one timer is pending.
C12_Witness ==
    /\ ticks = 2
    /\ emitted # <<>>
    /\ Len(TelemetryMsgs) = 1
    /\ timers = 1

\* C13: when the probe finds at least one field with a nonzero status, interface
\* construction fails with an error that lists exactly the failing field names, each
\* once and in the order of `fields`; after that failure no initial value is read, no
\* subscription is created and no subscription cleanup is registered. When all 9
\* probes succeed there is no such error.
C13_MissingFieldsError ==
    /\ [][\A failing \in ProbeFailures :
             ProbeResolved(failing) =>
                IF failing = {}
                THEN mainpc' # "failed" /\ mainError' = <<>>
                ELSE /\ mainpc' = "failed"
                     /\ {mainError'[i] : i \in 1..Len(mainError')} = failing
                     /\ \A i, j \in 1..Len(mainError') :
                           i < j => FieldIndex(mainError'[i]) < FieldIndex(mainError'[j])]_vars
    /\ [](mainpc = "failed" =>
             /\ state = <<>>
             /\ prodpc = "idle"
             /\ ~varbox.opc_sub
             /\ SUB_TERMINATE \notin {registered[i] : i \in 1..Len(registered)})
    /\ [](mainError # <<>> <=> mainpc = "failed")

\* C13 witness: 2 of the 9 probes failed, and the error lists those two fields.
C13_Witness ==
    /\ mainpc = "failed"
    /\ mainError = <<"GoodCount", "EmergencyStop">>
    /\ Len(registered) = 2

\* C14: the filter subscribes to its upstream exactly once; when the upstream has
\* completed or errored, exactly that end event, unchanged, has been passed
\* downstream once, and no value is emitted after it; once the filter is torn down
\* it has unsubscribed from the upstream exactly once; no exception escapes it.
C14_EndPropagatedOnce ==
    /\ [](fpc # "idle" => subscribes = 1)
    /\ [](fend = IF upEnd = NoEnd THEN <<>> ELSE <<upEnd>>)
    /\ [][fend # <<>> => fout' = fout]_vars
    /\ [](unsubscribes = IF fpc = "stopped" THEN 1 ELSE 0)
    /\ [](filterError = "none")

\* The reported-twin patches that carry ProductionRate.
RatePatches == SelectSeq(reported, LAMBDA u : "ProductionRate" \in DOMAIN u)

\* C15: in the turn in which the relay observes a snapshot (a notification once it is
\* subscribed, or the replayed snapshot when it subscribes) it issues exactly one
\* {ProductionRate} patch if the ProductionRate is the first it observes or differs
\* from the last reported one, and none otherwise; no other turn issues such a patch.
\* So once the relay has observed a snapshot, the last reported ProductionRate is the
\* ProductionRate of the current DeviceState.
C15_RateMirrorCurrent ==
    /\ [][LET observes == \/ mainpc = "ready" /\ emitted' # emitted
                          \/ mainpc = "getTwin" /\ mainpc' = "ready" /\ emitted # <<>>
              rate == Last(emitted').ProductionRate
          IN IF observes /\ (RatePatches = <<>> \/ Last(RatePatches).ProductionRate # rate)
             THEN RatePatches' = Append(RatePatches, [ProductionRate |-> rate])
             ELSE RatePatches' = RatePatches]_vars
    /\ []((mainpc = "ready" /\ emitted # <<>>) =>
             /\ RatePatches # <<>>
             /\ Last(RatePatches).ProductionRate = fromEntries(state).ProductionRate)

\* C15 witness: three snapshots, the second leaving ProductionRate as it was and the
\* third changing it; two patches were issued, the last with the current rate.
C15_Witness ==
    /\ Len(emitted) = 3
    /\ emitted[1].ProductionRate = emitted[2].ProductionRate
    /\ emitted[2].ProductionRate # emitted[3].ProductionRate
    /\ RatePatches = <<[ProductionRate |-> emitted[1].ProductionRate],
                       [ProductionRate |-> emitted[3].ProductionRate]>>

\* The session.write requests issued on behalf of the desired-property event i.
WritesBy(i) == SelectSeq(deviceWrites, LAMBDA w : w.by = i)

\* C16: every change of the desired ProductionRate leads to exactly one write, of
\* the new desired value, to the device's ProductionRate node, and no write is issued
\* otherwise; neither the handler's turn nor the turn in which the write returns
\* updates the reported twin.
C16_DesiredRateWrittenOnce ==
    /\ [](\A i \in DOMAIN twinEvents :
            /\ Len(WritesBy(i)) = 1
            /\ WritesBy(i)[1].request.nodeId = <<"device_id", "/", "ProductionRate">>
            /\ WritesBy(i)[1].request.attributeId = "Value"
            /\ WritesBy(i)[1].request.value = twinEvents[i].delta)
    /\ [](Len(deviceWrites) = Len(twinEvents))
    /\ [][twinEvents' # twinEvents => reported' = reported]_vars

\* C16 witness: two changes with different desired rates were delivered, both
\* writes have returned.
C16_Witness ==
    /\ Len(twinEvents) = 2
    /\ twinEvents[1].delta # twinEvents[2].delta
    /\ \A i \in DOMAIN twinEvents : twinEvents[i].pc = "returned"
    /\ Len(deviceWrites) = 2

\* The part of the sequence s after the last occurrence of c (all of s if none).
AfterLast(s, c) ==
    LET at == {i \in 1..Len(s) : s[i] = c}
        from == IF at = {} THEN 1 ELSE (CHOOSE i \in at : \A j \in at : j <= i) + 1
    IN SubSeq(s, from, Len(s))

\* C17: every periodic telemetry message carries, under the key Name, the display
\* name of the device: its identifier without the trailing separator and without the
\* namespace prefix ('ns=2;s=Device1/' gives 'Device1').
C17_TelemetryCarriesName ==
    \A i \in DOMAIN TelemetryMsgs :
        /\ "Name" \in DOMAIN TelemetryMsgs[i]
        /\ TelemetryMsgs[i].Name = AfterLast(device_id, "=")

\* The activation r calls a cleanup action in this turn.
Begins(r) ==
    /\ r \in DOMAIN runs'
    /\ runs'[r].idx > (IF r \in DOMAIN runs THEN runs[r].idx ELSE 0)

\* C18: when the cleanup action an activation calls fails (the subscription cleanup,
\* called while varbox.monitored is undefined), that activation is aborted in the
\* same turn, leaving a rejected promise; an aborted activation takes no further
\* step, so it starts none of the actions registered earlier; every start of an
\* action is the step of a live activation; and the actions that have completed stay
\* completed.
C18_FailureAbortsRun ==
    /\ [][\A r \in DOMAIN runs' :
             (Begins(r) /\ cleanup_stack'[runs'[r].idx] = SUB_TERMINATE /\ ~varbox.monitored)
                => /\ runs'[r].status = "aborted"
                   /\ rejections' > rejections]_vars
    /\ [][\A r \in DOMAIN runs : runs[r].status = "aborted" => runs'[r] = runs[r]]_vars
    /\ [][startLog' # startLog =>
             /\ Len(startLog') = Len(startLog) + 1
             /\ \E r \in DOMAIN runs' :
                   Begins(r) /\ Last(startLog') = cleanup_stack'[runs'[r].idx]]_vars
    /\ [][\A a \in CleanupActions : settled'[a] >= settled[a]]_vars

\* C18 witness: the only activation closed the cloud client, was aborted by the
\* failing subscription cleanup, and the session and the connection, registered
\* earlier, were not started.
C18_Witness ==
    /\ Len(runs) = 1
    /\ runs[1].status = "aborted"
    /\ Len(registered) = 4
    /\ settled[CLIENT_CLOSE] = 1
    /\ startLog = <<CLIENT_CLOSE, SUB_TERMINATE>>
    /\ Starts(SESSION_CLOSE) = 0
    /\ Starts(DISCONNECT) = 0

\* C19: a change notification for the monitored item of index idx with the value
\* `value` sets the slot idx of the state to that value and leaves every other slot
\* and every field name as they were, and the snapshot it emits is the whole state:
\* every emitted snapshot has exactly the 7 telemetry field names (never the 2
\* command-only identifiers), each with the value its slot holds at that moment.
C19_NotificationUpdatesOneSlot ==
    /\ [][\A idx \in 0..(Len(TelemetryFields) - 1) :
             \A value \in FieldValues(TelemetryFields[idx + 1]) :
                changeCallback(idx, value) =>
                   /\ state'[idx + 1] = <<TelemetryFields[idx + 1], value>>
                   /\ \A j \in 1..Len(state) : j # idx + 1 => state'[j] = state[j]
                   /\ Len(state') = Len(state)
                   /\ emitted' = Append(emitted, Last(emitted'))
                   /\ \A j \in 1..Len(state') :
                         Last(emitted')[state'[j][1]] = state'[j][2]]_vars
    /\ [](\A k \in DOMAIN emitted :
             DOMAIN emitted[k] = {"ProductionStatus", "WorkorderId", "ProductionRate",
                                  "GoodCount", "BadCount", "Temperature", "DeviceError"})

\* C19 witness: two notifications for different items; the second snapshot has both
\* new values and the initial values of the fields not notified.
C19_Witness ==
    /\ Len(emitted) = 2
    /\ emitted[1].GoodCount = <<0, 11>>
    /\ emitted[1].Temperature = 70
    /\ emitted[2].GoodCount = <<0, 11>>
    /\ emitted[2].Temperature = 71
    /\ emitted[2].WorkorderId = "wo-1"
    /\ emitted[2].ProductionRate = 50

\* C20: a shutdown triggered at any suspension point runs the cleanup actions
\* registered so far without failure: no activation of the cleanup sequence is
\* aborted by a failing action, and when a single shutdown has led to process.exit()
\* every registered action has run to its end.
C20_ShutdownRunsAllCleanups ==
    /\ \A r \in DOMAIN runs : runs[r].status # "aborted"
    /\ (Len(runs) = 1 /\ exitVia = "process.exit") =>
          \A i \in 1..Len(registered) : settled[registered[i]] >= 1

\* C21: once the cleanup action that closes the cloud client has been started, the
\* program hands nothing more to the cloud client: no telemetry message, no error
\* message and no reported-twin patch.
C21_NothingSentAfterClose ==
    [][(CLIENT_CLOSE \in Started) =>
          /\ sent' = sent
          /\ reported' = reported]_vars

\* The change-notification callbacks attached to the monitored items.
Attached == producerCalls.on - producerCalls.off

\* C22: however many listeners the live telemetry stream has been given, and
\* whenever, the device subscription and the monitored items have each been
\* requested exactly once from the first listener on (never before, never again);
\* at most one change-notification callback is attached, and exactly one while the
\* producer is running.
C22_ProducerStartedOnce ==
    /\ producerCalls.createSubscription2 = (IF prodpc = "idle" THEN 0 ELSE 1)
    /\ producerCalls.monitorItems =
          (IF prodpc \in {"idle", "createSubscription"} THEN 0 ELSE 1)
    /\ (prodpc = "idle") = (mainpc \notin {"getTwin", "ready"})
    /\ Attached = (IF prodpc = "running" THEN 1 ELSE 0)
    /\ producerCalls.on <= 1

\* C22 witness: all three consumers have subscribed, the producer is running, and
\* one subscription, one group of monitored items and one callback exist.
C22_Witness ==
    /\ listeners = 3
    /\ prodpc = "running"
    /\ producerCalls = [createSubscription2 |-> 1, monitorItems |-> 1, on |-> 1, off |-> 0]

====
